---- MODULE Spec2Model ----
(***************************************************************************)
(* A model of the generic LRU cache of src/go_example_0e3ffb.go: a hash    *)
(* index (cacheMap) over a doubly linked recency list (head ... tail) with *)
(* a size counter and a fixed capacity.                                    *)
(*                                                                         *)
(* The heap is an arena of cacheEntry cells addressed by 1..MaxNodes, with *)
(* 0 standing for the nil pointer.  A cache is a record holding the fields *)
(* of LRUCache together with the fields of every cell; the list helpers    *)
(* are operators from such a record to the record after the call, written  *)
(* statement by statement as in the source.                                *)
(***************************************************************************)
EXTENDS Integers, Sequences, FiniteSets, TLC

\* ------------------------------------------------------------- bounds ----
MaxCap == 3
MaxTrace == 4
NumThreads == 2

\* ---------------------------------------------------------- universes ----
nil == 0
zeroValue == 0
zeroKey == ""

\* The capacity main gives its cache.
MainCapacity == 3

\* Keys and values as main uses them: the keys a to d, and for the values
\* the zero value of int with two of the values main stores; the driver
\* uses the keys and values of main's first three Puts.
Keys == {"a", "b", "c", "d"}
Values == {zeroValue, 1, 4}
DriverKeys == {"a", "b", "c"}
DriverValues == {1, 2, 3}
Capacities == (0 - 1)..MaxCap

\* The concurrent callers and what they call with: two keys, two values,
\* and a capacity the two keys overflow beside one they fill.
Threads == 1..NumThreads
ConcKeys == {"a", "b"}
ConcValues == {1, 4}
ConcCapacities == {1, 2}
MaxNodes == MaxCap + 1
Node == 1..MaxNodes

VARIABLES status, c, trace, mutex, thread, lin, peer

vars == <<status, c, trace, mutex, thread, lin, peer>>

\* The variables of the concurrent callers: the mutex, the callers and the
\* cache as the calls returned so far leave it when made one after another;
\* and a second instance of the cache.
conc == <<mutex, thread, lin, peer>>

\* ------------------------------------------------------- constructor ----
\* The struct literal of NewLRUCache: capacity and an empty map are set,
\* every other field has its zero value.  key/value/prev/next are the
\* fields of the heap cells, all unallocated.
\* The struct literal without its capacity field.
EmptyCacheDropsCapacity(capacity) ==
    [capacity |-> 0,
     size     |-> 0,
     cacheMap |-> << >>,
     head     |-> nil,
     tail     |-> nil,
     key      |-> [n \in Node |-> zeroKey],
     value    |-> [n \in Node |-> zeroValue],
     prev     |-> [n \in Node |-> nil],
     next     |-> [n \in Node |-> nil]]

EmptyCache(capacity) ==
    [capacity |-> capacity,
     size     |-> 0,
     cacheMap |-> << >>,
     head     |-> nil,
     tail     |-> nil,
     key      |-> [n \in Node |-> zeroKey],
     value    |-> [n \in Node |-> zeroValue],
     prev     |-> [n \in Node |-> nil],
     next     |-> [n \in Node |-> nil]]

\* ------------------------------------------------------ list helpers ----
\* remove without the clearing of the entry's own links.
removeKeepsLinks(s, entry) ==
    LET s1 == IF s.prev[entry] # nil
              THEN [s EXCEPT !.next[s.prev[entry]] = s.next[entry]]
              ELSE [s EXCEPT !.head = s.next[entry]]
    IN  IF s1.next[entry] # nil
        THEN [s1 EXCEPT !.prev[s1.next[entry]] = s1.prev[entry]]
        ELSE [s1 EXCEPT !.tail = s1.prev[entry]]

\* remove without the relinking of the predecessor's next.
removeSkipsPredecessor(s, entry) ==
    LET s1 == IF s.prev[entry] # nil
              THEN s
              ELSE [s EXCEPT !.head = s.next[entry]]
        s2 == IF s1.next[entry] # nil
              THEN [s1 EXCEPT !.prev[s1.next[entry]] = s1.prev[entry]]
              ELSE [s1 EXCEPT !.tail = s1.prev[entry]]
        s3 == [s2 EXCEPT !.next[entry] = nil]
    IN  [s3 EXCEPT !.prev[entry] = nil]

\* remove without the relinking of the successor's prev.
removeSkipsSuccessor(s, entry) ==
    LET s1 == IF s.prev[entry] # nil
              THEN [s EXCEPT !.next[s.prev[entry]] = s.next[entry]]
              ELSE [s EXCEPT !.head = s.next[entry]]
        s2 == IF s1.next[entry] # nil
              THEN s1
              ELSE [s1 EXCEPT !.tail = s1.prev[entry]]
        s3 == [s2 EXCEPT !.next[entry] = nil]
    IN  [s3 EXCEPT !.prev[entry] = nil]

remove(s, entry) ==
    LET s1 == IF s.prev[entry] # nil
              THEN [s EXCEPT !.next[s.prev[entry]] = s.next[entry]]
              ELSE [s EXCEPT !.head = s.next[entry]]
        s2 == IF s1.next[entry] # nil
              THEN [s1 EXCEPT !.prev[s1.next[entry]] = s1.prev[entry]]
              ELSE [s1 EXCEPT !.tail = s1.prev[entry]]
        s3 == [s2 EXCEPT !.next[entry] = nil]
    IN  [s3 EXCEPT !.prev[entry] = nil]

\* addFront without the assignment of the old head's prev.
addFrontKeepsOldPrev(s, entry) ==
    LET s1 == [s EXCEPT !.next[entry] = s.head]
        s2 == [s1 EXCEPT !.prev[entry] = nil]
        s4 == [s2 EXCEPT !.head = entry]
    IN  IF s4.tail = nil THEN [s4 EXCEPT !.tail = entry] ELSE s4

\* addFront without the assignment of tail on an empty list.
addFrontKeepsTail(s, entry) ==
    LET s1 == [s EXCEPT !.next[entry] = s.head]
        s2 == [s1 EXCEPT !.prev[entry] = nil]
        s3 == IF s2.head # nil
              THEN [s2 EXCEPT !.prev[s2.head] = entry]
              ELSE s2
    IN  [s3 EXCEPT !.head = entry]

addFront(s, entry) ==
    LET s1 == [s EXCEPT !.next[entry] = s.head]
        s2 == [s1 EXCEPT !.prev[entry] = nil]
        s3 == IF s2.head # nil
              THEN [s2 EXCEPT !.prev[s2.head] = entry]
              ELSE s2
        s4 == [s3 EXCEPT !.head = entry]
    IN  IF s4.tail = nil THEN [s4 EXCEPT !.tail = entry] ELSE s4

\* moveToFront taking the entry at the tail to the front.
moveToFrontOfTail(s, entry) ==
    IF entry = s.head
    THEN s
    ELSE addFront(remove(s, s.tail), s.tail)

\* moveToFront without the addFront after the remove.
moveToFrontNoRelink(s, entry) ==
    IF entry = s.head
    THEN s
    ELSE remove(s, entry)

\* moveToFront without the test for the head and without the remove.
moveToFrontAddsOnly(s, entry) == addFront(s, entry)

moveToFront(s, entry) ==
    IF entry = s.head
    THEN s
    ELSE addFront(remove(s, entry), entry)

\* delete(m, k) of the Go runtime: a no-op when k is not a key of m.
delete(m, k) == [x \in (DOMAIN m) \ {k} |-> m[x]]

\* removeTail without the delete from cacheMap.
removeTailKeepsIndex(s) ==
    IF s.tail = nil
    THEN s
    ELSE LET s1 == remove(s, s.tail)
         IN  [s1 EXCEPT !.size = s1.size - 1]

\* removeTail taking the entry at the head instead of the one at the tail.
removeTailEvictsHead(s) ==
    IF s.head = nil
    THEN s
    ELSE LET oldHeadKey == s.key[s.head]
             s1 == remove(s, s.head)
             s2 == [s1 EXCEPT !.cacheMap = delete(s1.cacheMap, oldHeadKey)]
         IN  [s2 EXCEPT !.size = s2.size - 1]

\* removeTail without the unlinking of the tail from the list.
removeTailKeepsNode(s) ==
    IF s.tail = nil
    THEN s
    ELSE LET oldTailKey == s.key[s.tail]
             s2 == [s EXCEPT !.cacheMap = delete(s.cacheMap, oldTailKey)]
         IN  [s2 EXCEPT !.size = s2.size - 1]

\* removeTail without the decrement of size.
removeTailKeepsSize(s) ==
    IF s.tail = nil
    THEN s
    ELSE LET oldTailKey == s.key[s.tail]
             s1 == remove(s, s.tail)
         IN  [s1 EXCEPT !.cacheMap = delete(s1.cacheMap, oldTailKey)]

\* removeTail decrementing size twice.
removeTailCountsTwice(s) ==
    IF s.tail = nil
    THEN s
    ELSE LET oldTailKey == s.key[s.tail]
             s1 == remove(s, s.tail)
             s2 == [s1 EXCEPT !.cacheMap = delete(s1.cacheMap, oldTailKey)]
         IN  [s2 EXCEPT !.size = s2.size - 2]

\* removeTail deleting from the map the key of the entry at the head.
removeTailDeletesHeadKey(s) ==
    IF s.tail = nil
    THEN s
    ELSE LET oldTailKey == s.key[s.head]
             s1 == remove(s, s.tail)
             s2 == [s1 EXCEPT !.cacheMap = delete(s1.cacheMap, oldTailKey)]
         IN  [s2 EXCEPT !.size = s2.size - 1]

\* removeTail decrementing capacity where it decrements size.
removeTailShrinksCapacity(s) ==
    IF s.tail = nil
    THEN s
    ELSE LET oldTailKey == s.key[s.tail]
             s1 == remove(s, s.tail)
             s2 == [s1 EXCEPT !.cacheMap = delete(s1.cacheMap, oldTailKey)]
         IN  [s2 EXCEPT !.capacity = s2.capacity - 1]

removeTail(s) ==
    IF s.tail = nil
    THEN s
    ELSE LET oldTailKey == s.key[s.tail]
             s1 == remove(s, s.tail)
             s2 == [s1 EXCEPT !.cacheMap = delete(s1.cacheMap, oldTailKey)]
         IN  [s2 EXCEPT !.size = s2.size - 1]

\* ------------------------------------------------------------ memory ----
\* Cells the program can still reach: from head, tail and the map's values,
\* through prev and next.
Roots(s) == ({s.head, s.tail} \cup {s.cacheMap[k] : k \in DOMAIN s.cacheMap}) \ {nil}

RECURSIVE Closure(_, _, _)
Closure(s, seen, fuel) ==
    LET more == (seen \cup {s.prev[n] : n \in seen} \cup {s.next[n] : n \in seen}) \ {nil}
    IN  IF fuel = 0 \/ more = seen THEN seen ELSE Closure(s, more, fuel - 1)

Reachable(s) == Closure(s, Roots(s), MaxNodes)

FreeNodes(s) == Node \ Reachable(s)

\* The garbage collector.  An unreachable cell no longer exists: its storage
\* reads as zero when it is handed out again.  Addresses cannot be observed
\* by the program, so the collector also compacts: the reachable cells are
\* relocated to 1, 2, ... in list order (cells outside the list, if any,
\* after them in address order), every pointer following its cell.
RECURSIVE WalkOnce(_, _, _)
WalkOnce(s, n, seen) ==
    IF n = nil \/ n \in seen
    THEN << >>
    ELSE <<n>> \o WalkOnce(s, s.next[n], seen \cup {n})

RECURSIVE Ascending(_)
Ascending(S) ==
    IF S = {}
    THEN << >>
    ELSE LET n == CHOOSE x \in S : \A y \in S : x <= y
         IN  <<n>> \o Ascending(S \ {n})

Placement(s) ==
    LET inList == WalkOnce(s, s.head, {})
    IN  inList \o Ascending(Reachable(s) \ {inList[i] : i \in 1..Len(inList)})

Collect(s) ==
    LET place == Placement(s)
        to(n) == IF n = nil THEN nil ELSE CHOOSE i \in 1..Len(place) : place[i] = n
        from(i) == place[i]
        used(i) == i <= Len(place)
    IN  [s EXCEPT !.head = to(s.head),
                  !.tail = to(s.tail),
                  !.cacheMap = [k \in DOMAIN s.cacheMap |-> to(s.cacheMap[k])],
                  !.key   = [i \in Node |-> IF used(i) THEN s.key[from(i)] ELSE zeroKey],
                  !.value = [i \in Node |-> IF used(i) THEN s.value[from(i)] ELSE zeroValue],
                  !.prev  = [i \in Node |-> IF used(i) THEN to(s.prev[from(i)]) ELSE nil],
                  !.next  = [i \in Node |-> IF used(i) THEN to(s.next[from(i)]) ELSE nil]]

\* &cacheEntry{...}: a cell that nothing refers to.
NewEntry(s) ==
    LET free == FreeNodes(s)
    IN  CHOOSE n \in free : \A m \in free : n <= m

CanAllocate(s) == FreeNodes(s) # {}

\* ------------------------------------------------------- Get and Put ----
\* The insertion without the call of addFront.
InsertWithoutLink(s, key, value) ==
    LET newEntry == NewEntry(s)
        s1 == [s EXCEPT !.key[newEntry] = key,
                        !.value[newEntry] = value,
                        !.prev[newEntry] = nil,
                        !.next[newEntry] = nil]
        s2 == [s1 EXCEPT !.cacheMap = (key :> newEntry) @@ s1.cacheMap]
    IN  [s2 EXCEPT !.size = s2.size + 1]

\* The insertion making the new entry from the key alone.
InsertWithoutValue(s, key, value) ==
    LET newEntry == NewEntry(s)
        s1 == [s EXCEPT !.key[newEntry] = key,
                        !.value[newEntry] = zeroValue,
                        !.prev[newEntry] = nil,
                        !.next[newEntry] = nil]
        s2 == [s1 EXCEPT !.cacheMap = (key :> newEntry) @@ s1.cacheMap]
        s3 == addFront(s2, newEntry)
    IN  [s3 EXCEPT !.size = s3.size + 1]

\* The insertion counting the new entry twice.
InsertCountsTwice(s, key, value) ==
    LET newEntry == NewEntry(s)
        s1 == [s EXCEPT !.key[newEntry] = key,
                        !.value[newEntry] = value,
                        !.prev[newEntry] = nil,
                        !.next[newEntry] = nil]
        s2 == [s1 EXCEPT !.cacheMap = (key :> newEntry) @@ s1.cacheMap]
        s3 == addFront(s2, newEntry)
    IN  [s3 EXCEPT !.size = s3.size + 2]

\* Put for a key that is not in the map, up to the capacity test: a new
\* entry is made, stored in the map, linked in at the front and counted.
Insert(s, key, value) ==
    LET newEntry == NewEntry(s)
        s1 == [s EXCEPT !.key[newEntry] = key,
                        !.value[newEntry] = value,
                        !.prev[newEntry] = nil,
                        !.next[newEntry] = nil]
        s2 == [s1 EXCEPT !.cacheMap = (key :> newEntry) @@ s1.cacheMap]
        s3 == addFront(s2, newEntry)
    IN  [s3 EXCEPT !.size = s3.size + 1]

\* Put evicting only when size exceeds capacity by more than one.
PutOffByOne(s, key, value) ==
    IF key \in DOMAIN s.cacheMap
    THEN LET entry == s.cacheMap[key]
             s1 == [s EXCEPT !.value[entry] = value]
         IN  moveToFront(s1, entry)
    ELSE LET s4 == Insert(s, key, value)
         IN  IF s4.size > s4.capacity + 1 THEN removeTail(s4) ELSE s4

\* Put evicting as soon as size reaches capacity.
PutEvictsAtCapacity(s, key, value) ==
    IF key \in DOMAIN s.cacheMap
    THEN LET entry == s.cacheMap[key]
             s1 == [s EXCEPT !.value[entry] = value]
         IN  moveToFront(s1, entry)
    ELSE LET s4 == Insert(s, key, value)
         IN  IF s4.size >= s4.capacity THEN removeTail(s4) ELSE s4

\* Put without the return that ends the branch of an existing key.
PutFallsThrough(s, key, value) ==
    LET s0 == IF key \in DOMAIN s.cacheMap
              THEN moveToFront([s EXCEPT !.value[s.cacheMap[key]] = value], s.cacheMap[key])
              ELSE s
        s4 == Insert(s0, key, value)
    IN  IF s4.size > s4.capacity THEN removeTail(s4) ELSE s4

\* Put without the assignment of the new value to an existing entry.
PutKeepsOldValue(s, key, value) ==
    IF key \in DOMAIN s.cacheMap
    THEN moveToFront(s, s.cacheMap[key])
    ELSE LET s4 == Insert(s, key, value)
         IN  IF s4.size > s4.capacity THEN removeTail(s4) ELSE s4

\* Put making room at the head end of the list.
PutEvictsNewest(s, key, value) ==
    IF key \in DOMAIN s.cacheMap
    THEN LET entry == s.cacheMap[key]
             s1 == [s EXCEPT !.value[entry] = value]
         IN  moveToFront(s1, entry)
    ELSE LET s4 == Insert(s, key, value)
         IN  IF s4.size > s4.capacity THEN removeTailEvictsHead(s4) ELSE s4

\* Put writing the new value of an existing key into the entry at the head.
PutUpdatesHead(s, key, value) ==
    IF key \in DOMAIN s.cacheMap
    THEN LET entry == s.cacheMap[key]
             s1 == [s EXCEPT !.value[s.head] = value]
         IN  moveToFront(s1, entry)
    ELSE LET s4 == Insert(s, key, value)
         IN  IF s4.size > s4.capacity THEN removeTail(s4) ELSE s4

\* Put running the capacity test with >= after the update of an existing key.
PutEvictsOnUpdate(s, key, value) ==
    IF key \in DOMAIN s.cacheMap
    THEN LET entry == s.cacheMap[key]
             s1 == [s EXCEPT !.value[entry] = value]
             s2 == moveToFront(s1, entry)
         IN  IF s2.size >= s2.capacity THEN removeTail(s2) ELSE s2
    ELSE LET s4 == Insert(s, key, value)
         IN  IF s4.size > s4.capacity THEN removeTail(s4) ELSE s4

Put(s, key, value) ==
    IF key \in DOMAIN s.cacheMap
    THEN LET entry == s.cacheMap[key]
             s1 == [s EXCEPT !.value[entry] = value]
         IN  moveToFront(s1, entry)
    ELSE LET s4 == Insert(s, key, value)
         IN  IF s4.size > s4.capacity THEN removeTail(s4) ELSE s4

\* Get storing the zero value under a key it did not find.
GetOrCreate(s, key) ==
    IF key \in DOMAIN s.cacheMap
    THEN LET entry == s.cacheMap[key]
             s1 == moveToFront(s, entry)
         IN  [cache |-> s1, value |-> s1.value[entry], found |-> TRUE]
    ELSE [cache |-> Put(s, key, zeroValue), value |-> zeroValue, found |-> FALSE]

\* Get telling a hit from a miss by the value: found when it is not zero.
GetFoundByValue(s, key) ==
    IF key \in DOMAIN s.cacheMap
    THEN LET entry == s.cacheMap[key]
             s1 == moveToFront(s, entry)
         IN  [cache |-> s1, value |-> s1.value[entry],
              found |-> s1.value[entry] # zeroValue]
    ELSE [cache |-> s, value |-> zeroValue, found |-> FALSE]

\* Get making room on a miss by a call of removeTail.
GetEvictsOnMiss(s, key) ==
    IF key \in DOMAIN s.cacheMap
    THEN LET entry == s.cacheMap[key]
             s1 == moveToFront(s, entry)
         IN  [cache |-> s1, value |-> s1.value[entry], found |-> TRUE]
    ELSE [cache |-> removeTail(s), value |-> zeroValue, found |-> FALSE]

\* Get returning the value it found without the call of moveToFront.
GetWithoutPromotion(s, key) ==
    IF key \in DOMAIN s.cacheMap
    THEN [cache |-> s, value |-> s.value[s.cacheMap[key]], found |-> TRUE]
    ELSE [cache |-> s, value |-> zeroValue, found |-> FALSE]

Get(s, key) ==
    IF key \in DOMAIN s.cacheMap
    THEN LET entry == s.cacheMap[key]
             s1 == moveToFront(s, entry)
         IN  [cache |-> s1, value |-> s1.value[entry], found |-> TRUE]
    ELSE [cache |-> s, value |-> zeroValue, found |-> FALSE]

\* The capacity test unlinking the tail from the list and counting it out,
\* without the delete from the map.
EvictUnlinksOnly(s) ==
    IF s.size > s.capacity
    THEN [remove(s, s.tail) EXCEPT !.size = s.size - 1]
    ELSE s

\* The capacity test that ends Put, with its call of removeTail.
Evict(s) == IF s.size > s.capacity THEN removeTail(s) ELSE s

\* ------------------------------------------------------ observations ----
\* The cells met from head by following next, at most fuel of them.
RECURSIVE Walk(_, _, _)
Walk(s, n, fuel) ==
    IF n = nil \/ fuel = 0
    THEN << >>
    ELSE <<n>> \o Walk(s, s.next[n], fuel - 1)

List(s) == Walk(s, s.head, MaxNodes + 1)

Order(s) == [i \in 1..Len(List(s)) |-> s.key[List(s)[i]]]

Entries(s) == [i \in 1..Len(List(s)) |-> <<s.key[List(s)[i]], s.value[List(s)[i]]>>]

ListKeys(s) == {s.key[List(s)[i]] : i \in 1..Len(List(s))}

IndexKeys(s) == DOMAIN s.cacheMap

\* ------------------------------------------------------------- calls ----
\* One record per call made on the cache: the call, what it returned (for
\* Put, found is the result of its own map lookup), and the size field when
\* the call was made (sizeBefore) and when it returned (size).
Call(op, key, value, ret, found, sizeBefore, size) ==
    [op |-> op, key |-> key, value |-> value, ret |-> ret, found |-> found,
     sizeBefore |-> sizeBefore, size |-> size]

GetRecord(key, r) ==
    Call("Get", key, zeroValue, r.value, r.found, c.size, r.cache.size)

PutRecord(key, value, after) ==
    Call("Put", key, value, zeroValue, key \in DOMAIN c.cacheMap, c.size, after.size)

\* A caller between two calls.
Idle ==
    [pc |-> "idle", op |-> "", key |-> zeroKey, value |-> zeroValue,
     ret |-> zeroValue, found |-> FALSE, sizeBefore |-> 0, locks |-> 0]

\* The zero value of sync.Mutex is unlocked: 0, or the caller holding it.
NoCallers ==
    /\ mutex = 0
    /\ thread = [t \in Threads |-> Idle]
    /\ lin = c
    /\ peer = [cache |-> EmptyCache(1), mutex |-> 0, callers |-> {}]

Init ==
    /\ status = "none"
    /\ c = EmptyCache(0)
    /\ trace = << >>
    /\ NoCallers

\* NewLRUCache refusing only the negative capacities.
NewLRUCacheAllowsZero(capacity) ==
    /\ status = "none"
    /\ IF capacity < 0
       THEN /\ status' = "panic"
            /\ c' = c
       ELSE /\ status' = "live"
            /\ c' = EmptyCache(capacity)
    /\ trace' = << >>

NewLRUCache(capacity) ==
    /\ status = "none"
    /\ IF capacity <= 0
       THEN /\ status' = "panic"
            /\ c' = c
       ELSE /\ status' = "live"
            /\ c' = EmptyCache(capacity)
    /\ trace' = << >>

CallGet(key) ==
    /\ status = "live"
    /\ LET r == Get(c, key)
       IN  /\ c' = Collect(r.cache)
           /\ trace' = <<GetRecord(key, r)>>
    /\ UNCHANGED status

CallPut(key, value) ==
    /\ status = "live"
    /\ IF key \in DOMAIN c.cacheMap THEN TRUE ELSE CanAllocate(c)
    /\ LET after == Put(c, key, value)
       IN  /\ c' = Collect(after)
           /\ trace' = <<PutRecord(key, value, after)>>
    /\ UNCHANGED status

Construct ==
    /\ \E capacity \in Capacities : NewLRUCache(capacity)
    /\ UNCHANGED conc

DoGet ==
    /\ \E key \in Keys : CallGet(key)
    /\ UNCHANGED conc

DoPut ==
    /\ \E key \in Keys, value \in Values : CallPut(key, value)
    /\ UNCHANGED conc

Next == Construct \/ DoGet \/ DoPut

Spec == Init /\ [][Next]_vars

\* ------------------------------------------------------------ driver ----
\* A driver in the manner of main: a cache of main's capacity is constructed,
\* then a bounded run of Get and Put calls over the keys and values of main's
\* first three Puts is made on it, in any order, every call recorded.
InitDriver ==
    /\ status = "live"
    /\ c = EmptyCache(MainCapacity)
    /\ trace = << >>
    /\ NoCallers

DriverGet ==
    \E key \in DriverKeys :
        /\ Len(trace) < MaxTrace
        /\ LET r == Get(c, key)
           IN  /\ c' = Collect(r.cache)
               /\ trace' = Append(trace, GetRecord(key, r))
        /\ UNCHANGED <<status, conc>>

DriverPut ==
    \E key \in DriverKeys, value \in DriverValues :
        /\ Len(trace) < MaxTrace
        /\ IF key \in DOMAIN c.cacheMap THEN TRUE ELSE CanAllocate(c)
        /\ LET after == Put(c, key, value)
           IN  /\ c' = Collect(after)
               /\ trace' = Append(trace, PutRecord(key, value, after))
        /\ UNCHANGED <<status, conc>>

NextDriver == DriverGet \/ DriverPut

SpecDriver == InitDriver /\ [][NextDriver]_vars

\* -------------------------------------------------- concurrent callers ----
\* Several goroutines call Get and Put on one cache. A call is made in steps:
\* it is invoked, it acquires the mutex, it runs its body (Put with a new key
\* in two steps, the insertion and the capacity test), and its deferred
\* Unlock runs as it returns. The steps of different callers interleave.
InitConc ==
    /\ status = "live"
    /\ c \in {EmptyCache(capacity) : capacity \in ConcCapacities}
    /\ trace = << >>
    /\ NoCallers

\* The caller's position and what it will return change; the rest is kept.
At(t, pc, ret, found) ==
    [thread EXCEPT ![t].pc = pc, ![t].ret = ret, ![t].found = found]

InvokeGet(t) ==
    \E key \in ConcKeys :
        /\ thread[t].pc = "idle"
        /\ thread' = [thread EXCEPT ![t] =
               [Idle EXCEPT !.pc = "lock", !.op = "Get", !.key = key]]
        /\ UNCHANGED <<status, c, trace, mutex, lin, peer>>

InvokePut(t) ==
    \E key \in ConcKeys, value \in ConcValues :
        /\ thread[t].pc = "idle"
        /\ thread' = [thread EXCEPT ![t] =
               [Idle EXCEPT !.pc = "lock", !.op = "Put", !.key = key,
                            !.value = value]]
        /\ UNCHANGED <<status, c, trace, mutex, lin, peer>>

\* Lock that takes the mutex whether or not another caller holds it.
LockWithoutWaiting(t) ==
    /\ thread[t].pc = "lock"
    /\ mutex' = t
    /\ thread' = [thread EXCEPT ![t].pc = "body", ![t].sizeBefore = c.size,
                                ![t].locks = thread[t].locks + 1]
    /\ UNCHANGED <<status, c, trace, lin, peer>>

\* c.mutex.Lock(): blocks until the mutex is free, then takes it.
Lock(t) ==
    /\ thread[t].pc = "lock"
    /\ mutex = 0
    /\ mutex' = t
    /\ thread' = [thread EXCEPT ![t].pc = "body", ![t].sizeBefore = c.size,
                                ![t].locks = thread[t].locks + 1]
    /\ UNCHANGED <<status, c, trace, lin, peer>>

\* The body of Get.
GetBody(t) ==
    /\ thread[t].pc = "body"
    /\ thread[t].op = "Get"
    /\ LET r == Get(c, thread[t].key)
       IN  /\ c' = r.cache
           /\ thread' = At(t, "unlock", r.value, r.found)
    /\ UNCHANGED <<status, trace, mutex, lin, peer>>

\* The body of Put releasing the mutex once the new entry is in, before the
\* capacity test.
PutBodyUnlocksEarly(t) ==
    /\ thread[t].pc = "body"
    /\ thread[t].op = "Put"
    /\ IF thread[t].key \in DOMAIN c.cacheMap
       THEN /\ c' = Put(c, thread[t].key, thread[t].value)
            /\ thread' = At(t, "unlock", zeroValue, TRUE)
            /\ UNCHANGED mutex
       ELSE /\ CanAllocate(c)
            /\ c' = Insert(c, thread[t].key, thread[t].value)
            /\ thread' = At(t, "evict", zeroValue, FALSE)
            /\ mutex' = 0
    /\ UNCHANGED <<status, trace, lin, peer>>

\* The body of Put returning on the key it found without the deferred Unlock.
PutBodyLeaksLock(t) ==
    /\ thread[t].pc = "body"
    /\ thread[t].op = "Put"
    /\ IF thread[t].key \in DOMAIN c.cacheMap
       THEN /\ c' = Put(c, thread[t].key, thread[t].value)
            /\ thread' = [thread EXCEPT ![t] = Idle]
       ELSE /\ CanAllocate(c)
            /\ c' = Insert(c, thread[t].key, thread[t].value)
            /\ thread' = At(t, "evict", zeroValue, FALSE)
    /\ UNCHANGED <<status, trace, mutex, lin, peer>>

\* The body of Put up to the capacity test: the key is found, updated and
\* moved to the front, and Put returns; or the new entry is inserted.
PutBody(t) ==
    /\ thread[t].pc = "body"
    /\ thread[t].op = "Put"
    /\ IF thread[t].key \in DOMAIN c.cacheMap
       THEN /\ c' = Put(c, thread[t].key, thread[t].value)
            /\ thread' = At(t, "unlock", zeroValue, TRUE)
       ELSE /\ CanAllocate(c)
            /\ c' = Insert(c, thread[t].key, thread[t].value)
            /\ thread' = At(t, "evict", zeroValue, FALSE)
    /\ UNCHANGED <<status, trace, mutex, lin, peer>>

\* The capacity test never calling removeTail.
PutEvictNever(t) ==
    /\ thread[t].pc = "evict"
    /\ c' = c
    /\ thread' = [thread EXCEPT ![t].pc = "unlock"]
    /\ UNCHANGED <<status, trace, mutex, lin, peer>>

\* The capacity test that ends Put.
PutEvict(t) ==
    /\ thread[t].pc = "evict"
    /\ c' = Evict(c)
    /\ thread' = [thread EXCEPT ![t].pc = "unlock"]
    /\ UNCHANGED <<status, trace, mutex, lin, peer>>

\* What the call of caller t returns when made on the cache s, on its own.
Alone(s, t) ==
    IF thread[t].op = "Get"
    THEN Get(s, thread[t].key)
    ELSE [cache |-> Put(s, thread[t].key, thread[t].value),
          value |-> zeroValue, found |-> thread[t].key \in DOMAIN s.cacheMap]

\* The return without the Unlock: the mutex stays with the caller.
ReturnKeepsMutex(t) ==
    /\ thread[t].pc = "unlock"
    /\ mutex' = mutex
    /\ c' = Collect(c)
    /\ thread' = [thread EXCEPT ![t] = Idle]
    /\ UNCHANGED <<status, peer>>

\* The deferred c.mutex.Unlock() and the return, as the program makes them.
Return(t) ==
    /\ thread[t].pc = "unlock"
    /\ mutex' = 0
    /\ c' = Collect(c)
    /\ thread' = [thread EXCEPT ![t] = Idle]
    /\ UNCHANGED <<status, peer>>

\* The return with its record and its place in the order of the calls: lin
\* is the cache the calls returned so far leave when made one after another
\* in the order of their returns.
Unlock(t) ==
    /\ Return(t)
    /\ trace' = <<Call(thread[t].op, thread[t].key, thread[t].value,
                       thread[t].ret, thread[t].found,
                       thread[t].sizeBefore, c.size)>>
    /\ lin' = Collect(Alone(lin, t).cache)

DoInvokeGet == \E t \in Threads : InvokeGet(t)

DoInvokePut == \E t \in Threads : InvokePut(t)

DoLock == \E t \in Threads : Lock(t)

DoGetBody == \E t \in Threads : GetBody(t)

DoPutBody == \E t \in Threads : PutBody(t)

DoPutEvict == \E t \in Threads : PutEvict(t)

DoUnlock == \E t \in Threads : Unlock(t)

NextConc ==
    \/ DoInvokeGet
    \/ DoInvokePut
    \/ DoLock
    \/ DoGetBody
    \/ DoPutBody
    \/ DoPutEvict
    \/ DoUnlock

SpecConc == InitConc /\ [][NextConc]_vars

\* The callers of a cache of capacity 1, which the second key overflows.
InitFair ==
    /\ status = "live"
    /\ c = EmptyCache(1)
    /\ trace = << >>
    /\ NoCallers

\* The callers without the record of their calls: trace and lin stay as
\* they are.
FairReturn(t) == Return(t) /\ UNCHANGED <<trace, lin>>

DoFairReturn == \E t \in Threads : FairReturn(t)

NextFair ==
    \/ DoInvokeGet
    \/ DoInvokePut
    \/ DoLock
    \/ DoGetBody
    \/ DoPutBody
    \/ DoPutEvict
    \/ DoFairReturn

\* The steps of caller t once it holds the mutex.
Run(t) == GetBody(t) \/ PutBody(t) \/ PutEvict(t) \/ FairReturn(t)

\* The concurrent callers under a fair scheduler and a fair mutex: a caller
\* that can go on inside its call does go on, and a caller waiting in Lock
\* gets the mutex if it is free again and again. No caller has to make
\* another call.
SpecConcFair ==
    /\ InitFair
    /\ [][NextFair]_vars
    /\ \A t \in Threads : WF_vars(Run(t)) /\ SF_vars(Lock(t))

\* ------------------------------------------------------ two instances ----
\* Two caches made by two calls of NewLRUCache: each has its own fields and
\* its own mutex. The first is c with mutex, the second is peer.cache with
\* peer.mutex; peer.callers are the callers whose call is on the second.
\* The callers make their calls, in the steps of the concurrent callers, on
\* either instance.
Instances == {1, 2}

\* Two callers are enough to have each instance locked by its own caller.
PairCallers == {1, 2}

InitPair ==
    /\ status = "live"
    /\ c \in {EmptyCache(capacity) : capacity \in ConcCapacities}
    /\ trace = << >>
    /\ mutex = 0
    /\ thread = [t \in Threads |-> Idle]
    /\ lin = c
    /\ peer \in {[cache |-> EmptyCache(capacity), mutex |-> 0, callers |-> {}] :
                    capacity \in ConcCapacities}

\* The receiver of the call of caller t, its fields and its mutex.
Receiver(t) == IF t \in peer.callers THEN 2 ELSE 1

CacheAt(i) == IF i = 1 THEN c ELSE peer.cache

MutexAt(i) == IF i = 1 THEN mutex ELSE peer.mutex

\* The fields and the mutex of instance i become s and m; the other
\* instance is not touched.
Store(i, s, m) ==
    IF i = 1
    THEN /\ c' = s
         /\ mutex' = m
         /\ peer' = peer
    ELSE /\ peer' = [peer EXCEPT !.cache = s, !.mutex = m]
         /\ c' = c
         /\ mutex' = mutex

PairInvokeGet(t) ==
    \E i \in Instances, key \in ConcKeys :
        /\ thread[t].pc = "idle"
        /\ thread' = [thread EXCEPT ![t] =
               [Idle EXCEPT !.pc = "lock", !.op = "Get", !.key = key]]
        /\ peer' = [peer EXCEPT !.callers =
               IF i = 2 THEN peer.callers \cup {t} ELSE peer.callers \ {t}]
        /\ UNCHANGED <<status, c, trace, mutex, lin>>

PairInvokePut(t) ==
    \E i \in Instances, key \in ConcKeys, value \in ConcValues :
        /\ thread[t].pc = "idle"
        /\ thread' = [thread EXCEPT ![t] =
               [Idle EXCEPT !.pc = "lock", !.op = "Put", !.key = key,
                            !.value = value]]
        /\ peer' = [peer EXCEPT !.callers =
               IF i = 2 THEN peer.callers \cup {t} ELSE peer.callers \ {t}]
        /\ UNCHANGED <<status, c, trace, mutex, lin>>

\* Lock on one mutex shared by the two instances: it waits until neither
\* instance is locked.
PairLockShared(t) ==
    /\ thread[t].pc = "lock"
    /\ mutex = 0
    /\ peer.mutex = 0
    /\ Store(Receiver(t), CacheAt(Receiver(t)), t)
    /\ thread' = [thread EXCEPT ![t].pc = "body",
                                ![t].sizeBefore = CacheAt(Receiver(t)).size,
                                ![t].locks = thread[t].locks + 1]
    /\ UNCHANGED <<status, trace, lin>>

\* c.mutex.Lock() on the receiver's own mutex.
PairLock(t) ==
    /\ thread[t].pc = "lock"
    /\ MutexAt(Receiver(t)) = 0
    /\ Store(Receiver(t), CacheAt(Receiver(t)), t)
    /\ thread' = [thread EXCEPT ![t].pc = "body",
                                ![t].sizeBefore = CacheAt(Receiver(t)).size,
                                ![t].locks = thread[t].locks + 1]
    /\ UNCHANGED <<status, trace, lin>>

PairGetBody(t) ==
    /\ thread[t].pc = "body"
    /\ thread[t].op = "Get"
    /\ LET r == Get(CacheAt(Receiver(t)), thread[t].key)
       IN  /\ Store(Receiver(t), r.cache, t)
           /\ thread' = At(t, "unlock", r.value, r.found)
    /\ UNCHANGED <<status, trace, lin>>

PairPutBody(t) ==
    /\ thread[t].pc = "body"
    /\ thread[t].op = "Put"
    /\ LET s == CacheAt(Receiver(t))
       IN  IF thread[t].key \in DOMAIN s.cacheMap
           THEN /\ Store(Receiver(t), Put(s, thread[t].key, thread[t].value), t)
                /\ thread' = At(t, "unlock", zeroValue, TRUE)
           ELSE /\ CanAllocate(s)
                /\ Store(Receiver(t), Insert(s, thread[t].key, thread[t].value), t)
                /\ thread' = At(t, "evict", zeroValue, FALSE)
    /\ UNCHANGED <<status, trace, lin>>

PairPutEvict(t) ==
    /\ thread[t].pc = "evict"
    /\ Store(Receiver(t), Evict(CacheAt(Receiver(t))), t)
    /\ thread' = [thread EXCEPT ![t].pc = "unlock"]
    /\ UNCHANGED <<status, trace, lin>>

\* The deferred Unlock of the receiver's mutex and the return.
PairUnlock(t) ==
    /\ thread[t].pc = "unlock"
    /\ IF Receiver(t) = 1
       THEN /\ c' = Collect(c)
            /\ mutex' = 0
            /\ peer' = peer
       ELSE /\ peer' = [cache |-> Collect(peer.cache), mutex |-> 0,
                        callers |-> peer.callers \ {t}]
            /\ c' = c
            /\ mutex' = mutex
    /\ thread' = [thread EXCEPT ![t] = Idle]
    /\ UNCHANGED <<status, trace, lin>>

DoPairInvokeGet == \E t \in PairCallers : PairInvokeGet(t)

DoPairInvokePut == \E t \in PairCallers : PairInvokePut(t)

DoPairLock == \E t \in PairCallers : PairLock(t)

DoPairGetBody == \E t \in PairCallers : PairGetBody(t)

DoPairPutBody == \E t \in PairCallers : PairPutBody(t)

DoPairPutEvict == \E t \in PairCallers : PairPutEvict(t)

DoPairUnlock == \E t \in PairCallers : PairUnlock(t)

NextPair ==
    \/ DoPairInvokeGet
    \/ DoPairInvokePut
    \/ DoPairLock
    \/ DoPairGetBody
    \/ DoPairPutBody
    \/ DoPairPutEvict
    \/ DoPairUnlock

SpecPair == InitPair /\ [][NextPair]_vars

\* -------------------------------------------------------------- main ----
\* The calls of main, in their order. main is caller 1 and makes them one
\* after another, each in the steps of a call (Lock, body, capacity test,
\* Unlock); every call is recorded as it returns. main makes its cache with
\* capacity 3; the script is run on every capacity from 1 to MaxCap.
MainCall(op, key, value) == [op |-> op, key |-> key, value |-> value]

MainScript ==
    <<MainCall("Put", "a", 1), MainCall("Put", "b", 2), MainCall("Put", "c", 3),
      MainCall("Get", "b", zeroValue), MainCall("Put", "d", 4),
      MainCall("Get", "a", zeroValue), MainCall("Get", "c", zeroValue),
      MainCall("Put", "e", 5)>>

InitMain ==
    /\ status = "live"
    /\ c \in {EmptyCache(capacity) : capacity \in 1..MaxCap}
    /\ trace = << >>
    /\ NoCallers

\* main makes its next call.
MainInvoke ==
    /\ thread[1].pc = "idle"
    /\ Len(trace) < Len(MainScript)
    /\ thread' = [thread EXCEPT ![1] =
           [Idle EXCEPT !.pc = "lock",
                        !.op = MainScript[Len(trace) + 1].op,
                        !.key = MainScript[Len(trace) + 1].key,
                        !.value = MainScript[Len(trace) + 1].value]]
    /\ UNCHANGED <<status, c, trace, mutex, lin, peer>>

\* The deferred Unlock and the return to main.
MainUnlock ==
    /\ thread[1].pc = "unlock"
    /\ mutex' = 0
    /\ c' = Collect(c)
    /\ trace' = Append(trace, Call(thread[1].op, thread[1].key, thread[1].value,
                                   thread[1].ret, thread[1].found,
                                   thread[1].sizeBefore, c.size))
    /\ thread' = [thread EXCEPT ![1] = Idle]
    /\ UNCHANGED <<status, lin, peer>>

MainLock == Lock(1)

MainGetBody == GetBody(1)

MainPutBody == PutBody(1)

MainPutEvict == PutEvict(1)

NextMain ==
    \/ MainInvoke
    \/ MainLock
    \/ MainGetBody
    \/ MainPutBody
    \/ MainPutEvict
    \/ MainUnlock

SpecMain == InitMain /\ [][NextMain]_vars

\* main is between two calls, n of them made, on a cache of its capacity.
MainAfter(n) ==
    /\ c.capacity = MainCapacity
    /\ thread[1].pc = "idle"
    /\ Len(trace) = n

\* The caller holds the mutex: it is past Lock and before its return.
Inside(t) == thread[t].pc \in {"body", "evict", "unlock"}

\* The step is the return of caller t from its call.
Returns(t) == thread[t].pc = "unlock" /\ thread'[t].pc = "idle"

\* The cells of the list, and the cells the index points at.
ListNodes(s) == {List(s)[i] : i \in 1..Len(List(s))}

IndexNodes(s) == {s.cacheMap[k] : k \in DOMAIN s.cacheMap}

\* ------------------------------------------------------------ typing ----
Live == status = "live"

Called == Live /\ trace # << >>

Last == trace[Len(trace)]

TypeOK ==
    /\ status \in {"none", "live", "panic"}
    /\ c.size \in Int
    /\ c.head \in Node \cup {nil}
    /\ c.tail \in Node \cup {nil}
    /\ DOMAIN c.cacheMap \subseteq Keys

ValueOf(s, key) == s.value[s.cacheMap[key]]

HeadKey(s) == IF s.head = nil THEN zeroKey ELSE s.key[s.head]

TailKey(s) == IF s.tail = nil THEN zeroKey ELSE s.key[s.tail]

Front(q) == SubSeq(q, 1, Len(q) - 1)

IsPut(e, key, value) == e.op = "Put" /\ e.key = key /\ e.value = value

IsGet(e, key) == e.op = "Get" /\ e.key = key

\* The step is a call of Put, or of Get, on the live cache: every call
\* leaves its record at the end of the trace.
PutStep == Live /\ trace' # << >> /\ Last'.op = "Put"

GetStep == Live /\ trace' # << >> /\ Last'.op = "Get"

\* --------------------------------------------------------------- C1 ----
\* C1: from a freshly constructed cache of any capacity >= 1, after every
\* Get or Put the number of live entries is at most the capacity: the size
\* field, the number of keys in the index and the length of the list.
CapacityInvariant ==
    Live => /\ c.size <= c.capacity
            /\ Cardinality(IndexKeys(c)) <= c.capacity
            /\ Len(List(c)) <= c.capacity

\* A Put of a new key on a full cache has returned.
CapacityWitness ==
    /\ Called
    /\ Last.op = "Put"
    /\ ~Last.found
    /\ Last.sizeBefore = c.capacity
    /\ c.size = c.capacity

\* --------------------------------------------------------------- C2 ----
\* C2: after every Get or Put the keys of cacheMap are exactly the keys of
\* the cells reachable from head through next.
IndexListConsistency ==
    Live => IndexKeys(c) = ListKeys(c)

\* An eviction has taken a key out of both structures and left others in.
ConsistencyWitness ==
    /\ Called
    /\ Last.op = "Put"
    /\ ~Last.found
    /\ Last.sizeBefore = c.capacity
    /\ Cardinality(IndexKeys(c)) >= 2
    /\ IndexKeys(c) = ListKeys(c)

\* --------------------------------------------------------------- C3 ----
\* C3: a Put of an absent key while size = capacity removes exactly one
\* entry, the one at the tail of the list; every other entry that was
\* present stays, in place behind the new head, with its value.
LRUEviction ==
    [][LET key == Last'.key
           value == Last'.value
       IN
        (PutStep /\ key \notin IndexKeys(c) /\ c.size = c.capacity)
        => /\ IndexKeys(c) \ IndexKeys(c') = {TailKey(c)}
           /\ IndexKeys(c') = (IndexKeys(c) \ {TailKey(c)}) \cup {key}
           /\ \A k \in IndexKeys(c) \ {TailKey(c)} : ValueOf(c', k) = ValueOf(c, k)
           /\ Entries(c') = <<<<key, value>>>> \o Front(Entries(c))]_vars

\* A full cache of three entries has evicted its tail for a new key.
EvictionWitness ==
    /\ Called
    /\ Last.op = "Put"
    /\ ~Last.found
    /\ Last.sizeBefore = c.capacity
    /\ c.capacity = 3
    /\ Len(Entries(c)) = 3
    /\ HeadKey(c) = Last.key

\* --------------------------------------------------------------- C4 ----
\* C4: Get of a present key returns the value stored for it and true, and
\* the key's entry is the head of the list when Get returns.
GetHit ==
    [][LET key == Last'.key
       IN
        (GetStep /\ key \in IndexKeys(c))
        => /\ Last'.ret = ValueOf(c, key)
           /\ Last'.found
           /\ c'.head # nil
           /\ key \in IndexKeys(c')
           /\ c'.head = c'.cacheMap[key]
           /\ c'.key[c'.head] = key
           /\ Order(c')[1] = key]_vars

\* A Get has hit on a full cache of three entries; the entry is the head.
GetHitWitness ==
    /\ Called
    /\ Last.op = "Get"
    /\ Last.found
    /\ Last.ret # zeroValue
    /\ HeadKey(c) = Last.key
    /\ Len(List(c)) = 3

\* --------------------------------------------------------------- C5 ----
\* C5: Get of an absent key returns the zero value and false and leaves
\* the whole cache as it was: cacheMap, head, tail, size and every cell.
GetMiss ==
    [][LET key == Last'.key
       IN
        (GetStep /\ key \notin IndexKeys(c))
        => /\ Last'.ret = zeroValue
           /\ ~Last'.found
           /\ c' = c]_vars

\* A Get has missed on a cache that holds other keys.
GetMissWitness ==
    /\ Called
    /\ Last.op = "Get"
    /\ ~Last.found
    /\ Last.key \notin IndexKeys(c)
    /\ c.size >= 2

\* --------------------------------------------------------------- C6 ----
\* C6: Put of a present key stores the new value in its entry, makes the
\* entry the head, keeps size and the set of keys, and evicts nothing,
\* also on a full cache.
PutExisting ==
    [][LET key == Last'.key
           value == Last'.value
       IN
        (PutStep /\ key \in IndexKeys(c))
        => /\ c'.size = c.size
           /\ IndexKeys(c') = IndexKeys(c)
           /\ ListKeys(c') = ListKeys(c)
           /\ Len(List(c')) = Len(List(c))
           /\ ValueOf(c', key) = value
           /\ c'.head = c'.cacheMap[key]
           /\ Order(c')[1] = key
           /\ \A k \in IndexKeys(c) \ {key} : ValueOf(c', k) = ValueOf(c, k)]_vars

\* A Put has overwritten a key of a full cache.
PutExistingWitness ==
    /\ Called
    /\ Last.op = "Put"
    /\ Last.found
    /\ Last.sizeBefore = c.capacity
    /\ c.size >= 2
    /\ ValueOf(c, Last.key) = Last.value

\* --------------------------------------------------------------- C7 ----
\* C7: Put of an absent key while size < capacity adds the entry at the
\* head of the list and in the index, adds exactly 1 to size and removes
\* nothing.
PutBelowCapacity ==
    [][LET key == Last'.key
           value == Last'.value
       IN
        (PutStep /\ key \notin IndexKeys(c) /\ c.size < c.capacity)
        => /\ c'.size = c.size + 1
           /\ IndexKeys(c') = IndexKeys(c) \cup {key}
           /\ c'.cacheMap[key] = c'.head
           /\ Entries(c') = <<<<key, value>>>> \o Entries(c)]_vars

\* A Put has added a key below capacity, filling the cache.
PutBelowCapacityWitness ==
    /\ Called
    /\ Last.op = "Put"
    /\ ~Last.found
    /\ Last.sizeBefore < c.capacity
    /\ c.size = Last.sizeBefore + 1
    /\ c.size >= 2

\* --------------------------------------------------------------- C8 ----
\* C8: on a cache of capacity 3, after Put(a,1); Put(b,2); Put(c,3) the
\* keys from head to tail are c, b, a; after Get(b) next they are b, c, a.
ThreePuts ==
    /\ c.capacity = MainCapacity
    /\ Len(trace) >= 3
    /\ IsPut(trace[1], "a", 1)
    /\ IsPut(trace[2], "b", 2)
    /\ IsPut(trace[3], "c", 3)

RecencyCorrectness ==
    ThreePuts =>
        /\ Len(trace) = 3 => Order(c) = <<"c", "b", "a">>
        /\ (Len(trace) = 4 /\ IsGet(trace[4], "b")) => Order(c) = <<"b", "c", "a">>

\* The three Puts and the Get have been made.
RecencyWitness ==
    /\ Live
    /\ ThreePuts
    /\ Len(trace) = 4
    /\ IsGet(trace[4], "b")
    /\ trace[4].found

\* --------------------------------------------------------------- C9 ----
\* C9: on a cache of capacity 3 whose keys from head to tail are c, b, a,
\* Put(d,4) evicts a and leaves d, c, b; Get(a) made next returns the zero
\* value and false, the order staying d, c, b.
EvictionCorrectness ==
    [][/\ (c.capacity = 3 /\ Order(c) = <<"c", "b", "a">> /\ PutStep /\ IsPut(Last', "d", 4))
          => /\ Order(c') = <<"d", "c", "b">>
             /\ "a" \notin IndexKeys(c')
             /\ "d" \in IndexKeys(c')
             /\ ValueOf(c', "d") = 4
       /\ (/\ Called
           /\ IsPut(Last, "d", 4)
           /\ ~Last.found
           /\ Last.sizeBefore = 3
           /\ c.capacity = 3
           /\ Order(c) = <<"d", "c", "b">>
           /\ GetStep
           /\ IsGet(Last', "a"))
          => /\ Last'.ret = zeroValue
             /\ ~Last'.found
             /\ Order(c') = <<"d", "c", "b">>]_vars

\* Get(a) has missed on the cache d, c, b of capacity 3 that holds 4 for d.
EvictionCorrectnessWitness ==
    /\ Called
    /\ IsGet(Last, "a")
    /\ ~Last.found
    /\ c.capacity = 3
    /\ Order(c) = <<"d", "c", "b">>
    /\ c.value[c.head] = 4

\* -------------------------------------------------------------- C10 ----
\* C10: Put(k,v1) directly followed by Put(k,v2) leaves size as it was
\* after the first Put, and Get(k) made next returns v2 and true.
UpdateInPlace ==
    \A i \in 1..(Len(trace) - 1) :
        (trace[i].op = "Put" /\ trace[i + 1].op = "Put" /\ trace[i + 1].key = trace[i].key)
        => /\ trace[i + 1].size = trace[i].size
           /\ (i + 2 <= Len(trace) /\ IsGet(trace[i + 2], trace[i].key))
              => /\ trace[i + 2].ret = trace[i + 1].value
                 /\ trace[i + 2].found

\* Two Puts of one key with different values, then a Get of it, were made.
UpdateInPlaceWitness ==
    /\ Live
    /\ \E i \in 1..(Len(trace) - 2) :
        /\ trace[i].op = "Put"
        /\ trace[i + 1].op = "Put"
        /\ trace[i + 1].key = trace[i].key
        /\ trace[i + 1].value # trace[i].value
        /\ IsGet(trace[i + 2], trace[i].key)
        /\ trace[i + 2].found

\* -------------------------------------------------------------- C11 ----
\* C11: Get of the key at the head of the list leaves the recency order as
\* it is, head, tail and every prev and next link, so any number of such
\* Gets in a row leave what the first one left.
IdempotentHeadAccess ==
    [][LET key == Last'.key
       IN
        (GetStep /\ c.head # nil /\ key = HeadKey(c))
        => /\ Last'.found
           /\ c'.head = c.head
           /\ c'.tail = c.tail
           /\ c'.prev = c.prev
           /\ c'.next = c.next
           /\ Order(c') = Order(c)
           /\ c' = c]_vars

\* Two Gets of one key were made in a row on a list of at least two
\* entries: the second found the key at the head.
IdempotentHeadAccessWitness ==
    /\ Live
    /\ Len(trace) >= 2
    /\ IsGet(trace[Len(trace)], trace[Len(trace) - 1].key)
    /\ trace[Len(trace) - 1].op = "Get"
    /\ trace[Len(trace) - 1].found
    /\ trace[Len(trace)].found
    /\ Len(List(c)) >= 2

\* -------------------------------------------------------------- C14 ----
\* C14: NewLRUCache with a capacity of zero or less panics and returns no
\* cache; no cache whose capacity is zero or less is ever reached.
ConstructionPrecondition ==
    [][/\ \A capacity \in Capacities :
            (NewLRUCache(capacity) /\ capacity <= 0)
            => /\ status' = "panic"
               /\ c' = c
               /\ trace' = << >>
       /\ status' = "live" => c'.capacity >= 1
       /\ status = "panic" => status' = "panic"]_vars

\* The constructor has panicked: no cache exists and no call was made.
ConstructionPanicWitness ==
    /\ status = "panic"
    /\ c.capacity = 0
    /\ trace = << >>

\* -------------------------------------------------------------- C15 ----
\* C15: NewLRUCache with a capacity of one or more returns a cache with an
\* empty index, head and tail nil, size 0 and the capacity given; Get of
\* any key on the fresh cache returns the zero value and false.
InitialState ==
    [][/\ \A capacity \in Capacities :
            (NewLRUCache(capacity) /\ capacity >= 1)
            => /\ status' = "live"
               /\ c'.capacity = capacity
               /\ c'.size = 0
               /\ c'.cacheMap = << >>
               /\ c'.head = nil
               /\ c'.tail = nil
               /\ List(c') = << >>
               /\ \A key \in Keys : /\ Get(c', key).value = zeroValue
                                    /\ ~Get(c', key).found
       /\ (GetStep /\ trace = << >>)
            => /\ Last'.ret = zeroValue
               /\ ~Last'.found
               /\ c' = c]_vars

\* Get was called on the fresh cache of the largest capacity and missed.
InitialStateWitness ==
    /\ Called
    /\ Last.op = "Get"
    /\ ~Last.found
    /\ Last.sizeBefore = 0
    /\ c.size = 0
    /\ c.head = nil
    /\ c.capacity = MaxCap

\* -------------------------------------------------------------- C18 ----
\* C18: after every call, size is the number of keys in cacheMap and the
\* number of cells reachable from head, and no key is in two cells of the
\* list.
SizeMirrors ==
    Live => /\ c.size = Cardinality(IndexKeys(c))
            /\ c.size = Len(List(c))
            /\ Cardinality(ListKeys(c)) = Len(List(c))

\* An eviction on a cache of capacity 2 has left size at 2.
SizeMirrorsWitness ==
    /\ Called
    /\ Last.op = "Put"
    /\ ~Last.found
    /\ Last.sizeBefore = 2
    /\ Last.size = 2
    /\ c.capacity = 2
    /\ c.size = 2

\* -------------------------------------------------------------- C19 ----
\* C19: after every call, a cell A of the list and the cell B after it
\* satisfy A.next = B and B.prev = A; no cell occurs twice; following next
\* from head reaches tail after size - 1 links and nil after size steps.
WellFormedList ==
    Live =>
        LET L == List(c)
        IN  /\ \A i \in 1..(Len(L) - 1) : /\ c.next[L[i]] = L[i + 1]
                                          /\ c.prev[L[i + 1]] = L[i]
            /\ Cardinality({L[i] : i \in 1..Len(L)}) = Len(L)
            /\ Len(L) = c.size
            /\ c.size >= 1 => /\ L[c.size] = c.tail
                              /\ c.next[L[c.size]] = nil

\* A Put of a present key has relinked a list of three cells.
WellFormedListWitness ==
    /\ Called
    /\ Last.op = "Put"
    /\ Last.found
    /\ Len(List(c)) = 3
    /\ c.prev[c.tail] # nil
    /\ c.prev[c.tail] # c.head

\* -------------------------------------------------------------- C20 ----
\* C20: after every call, head is nil exactly when tail is nil and exactly
\* when size is 0; on a non-empty list head.prev and tail.next are nil,
\* and head = tail exactly when size is 1.
HeadTailEnds ==
    Live => /\ (c.head = nil) <=> (c.tail = nil)
            /\ (c.head = nil) <=> (c.size = 0)
            /\ (c.head # nil /\ c.tail # nil)
               => /\ c.prev[c.head] = nil
                  /\ c.next[c.tail] = nil
                  /\ (c.head = c.tail) <=> (c.size = 1)

\* A cache of capacity 1 has replaced its only entry: head = tail.
HeadTailEndsWitness ==
    /\ Called
    /\ Last.op = "Put"
    /\ ~Last.found
    /\ Last.sizeBefore = 1
    /\ c.capacity = 1
    /\ c.size = 1
    /\ c.head = c.tail
    /\ c.head # nil

\* -------------------------------------------------------------- C12 ----
\* C12: with two or more callers making Get and Put calls on one cache in
\* any interleaving, on the same keys or on different ones, every state in
\* which the mutex is free has 0 <= size <= capacity, has the same keys in
\* the index and in the list, and has an uncorrupted list: the walk from
\* head ends at a nil next without meeting a cell twice, and every cell the
\* index points at is on that walk and carries the key it is indexed by.
ConcurrencySafety ==
    (Live /\ mutex = 0) =>
        /\ NumThreads >= 2
        /\ c.size >= 0
        /\ c.size <= c.capacity
        /\ IndexKeys(c) = ListKeys(c)
        /\ Len(List(c)) <= MaxNodes
        /\ Cardinality(ListNodes(c)) = Len(List(c))
        /\ IndexNodes(c) \subseteq ListNodes(c)
        /\ \A k \in IndexKeys(c) : c.key[c.cacheMap[k]] = k
        /\ Cardinality(IndexKeys(c)) = Len(List(c))

\* The mutex is free after a Put that evicted returned, while another caller
\* waits to make a call on the same key.
ConcurrencySafetyWitness ==
    /\ Called
    /\ mutex = 0
    /\ Last.op = "Put"
    /\ ~Last.found
    /\ Last.sizeBefore = c.capacity
    /\ \E t \in Threads : thread[t].pc = "lock" /\ thread[t].key = Last.key

\* -------------------------------------------------------------- C13 ----
\* C13: the calls take effect one at a time in the order of their returns,
\* which puts a call that returned before another was invoked first. lin is
\* the sequential cache after the calls returned so far, made in that order.
\* Whenever the mutex is free the cache is that sequential cache, and every
\* call returns, as it returns, what the same call returns on the sequential
\* cache, and leaves the cache as the sequential call leaves it.
Linearizable ==
    [][/\ mutex = 0 => c = lin
       /\ mutex' = 0 => c' = lin'
       /\ \A t \in Threads :
            Returns(t) =>
                /\ thread[t].ret = Alone(lin, t).value
                /\ thread[t].found = Alone(lin, t).found
                /\ lin' = Collect(Alone(lin, t).cache)
                /\ c' = lin']_vars

\* A Get that found its key returned while another caller, invoked before
\* that return, waits to Put the same key.
LinearizableWitness ==
    /\ Called
    /\ mutex = 0
    /\ Last.op = "Get"
    /\ Last.found
    /\ c = lin
    /\ \E t \in Threads :
        /\ thread[t].pc = "lock"
        /\ thread[t].op = "Put"
        /\ thread[t].key = Last.key

\* -------------------------------------------------------------- C16 ----
\* C16: a caller holds the mutex exactly while it is in the body of its
\* call, having acquired it once; at most one caller is in a body; the mutex
\* is free when no caller is in a body, so whenever no call is in progress;
\* and a call ends only by its return, from the end of its body, which
\* releases the mutex, whichever path the body took.
Discipline ==
    /\ \A t \in Threads : Inside(t) <=> mutex = t
    /\ \A t \in Threads : thread[t].locks = (IF Inside(t) THEN 1 ELSE 0)
    /\ \A t, u \in Threads : (Inside(t) /\ Inside(u)) => t = u
    /\ (\A t \in Threads : ~Inside(t)) => mutex = 0
    /\ (\A t \in Threads : thread[t].pc = "idle") => mutex = 0

LockingDiscipline ==
    [][/\ Discipline
       /\ Discipline'
       /\ \A t \in Threads :
            /\ (thread[t].pc # "idle" /\ thread'[t].pc = "idle")
                   => (Returns(t) /\ mutex = t /\ mutex' = 0
                       /\ thread[t].locks = 1)
            /\ (mutex = t /\ mutex' # t) => Returns(t)
            /\ (Inside(t) /\ thread'[t].pc # thread[t].pc)
                   => (Inside(t)' \/ Returns(t))]_vars

\* A Put that found its key is about to return by its early return, holding
\* the mutex another caller waits for.
LockingDisciplineWitness ==
    \E t, u \in Threads :
        /\ t # u
        /\ mutex = t
        /\ thread[t].pc = "unlock"
        /\ thread[t].op = "Put"
        /\ thread[t].found
        /\ thread[u].pc = "lock"

\* -------------------------------------------------------------- C17 ----
\* C17: in every reachable state in which the mutex is not held, the size
\* field is at most the capacity.
SizeOutsideLock == (Live /\ mutex = 0) => c.size <= c.capacity

\* The mutex is free, no call is in progress and the cache is full after a
\* Put made on the full cache of capacity 1 inserted a new key, now at head.
SizeOutsideLockWitness ==
    /\ Called
    /\ mutex = 0
    /\ \A t \in Threads : thread[t].pc = "idle"
    /\ Last.op = "Put"
    /\ ~Last.found
    /\ Last.sizeBefore = 1
    /\ c.capacity = 1
    /\ c.size = 1
    /\ HeadKey(c) = Last.key

\* -------------------------------------------------------------- C21 ----
\* C21: a key that is in the index before a step and not after it was the
\* key at the tail, and the step was a Put of another key, absent from the
\* index, on a full cache; a Get, and a Put of a key that is present, take
\* no key out (of the index or of the list).
EntryLifecycle ==
    [][/\ \A k \in IndexKeys(c) \ IndexKeys(c') :
            /\ PutStep
            /\ Last'.key # k
            /\ Last'.key \notin IndexKeys(c)
            /\ c.size = c.capacity
            /\ k = TailKey(c)
       /\ GetStep => /\ IndexKeys(c) \subseteq IndexKeys(c')
                     /\ ListKeys(c) \subseteq ListKeys(c')
       /\ (PutStep /\ Last'.key \in IndexKeys(c))
            => /\ IndexKeys(c) \subseteq IndexKeys(c')
               /\ ListKeys(c) \subseteq ListKeys(c')]_vars

\* On a cache of capacity 2, two of the four keys are absent after a Put
\* that evicted: the one evicted by it is one of them.
EntryLifecycleWitness ==
    /\ Called
    /\ Last.op = "Put"
    /\ ~Last.found
    /\ Last.sizeBefore = 2
    /\ c.capacity = 2
    /\ Last.key \in IndexKeys(c)
    /\ Cardinality(Keys \ IndexKeys(c)) = 2

\* -------------------------------------------------------------- C22 ----
\* C22: the step of a critical section that takes an entry out of the list
\* takes it out of the index too, and the other way round, so that whenever
\* the mutex is free the cells of the list are the cells the index points
\* at, each under its own key.
Paired(s) ==
    /\ ListKeys(s) = IndexKeys(s)
    /\ ListNodes(s) = IndexNodes(s)
    /\ \A k \in IndexKeys(s) : s.key[s.cacheMap[k]] = k

PairedRemoval ==
    [][/\ ListKeys(c) \ ListKeys(c') = IndexKeys(c) \ IndexKeys(c')
       /\ mutex = 0 => Paired(c)
       /\ mutex' = 0 => Paired(c')]_vars

\* A caller still holds the mutex after its Put evicted the tail: the
\* evicted key is in neither structure.
PairedRemovalWitness ==
    \E t \in Threads :
        /\ mutex = t
        /\ thread[t].pc = "unlock"
        /\ thread[t].op = "Put"
        /\ ~thread[t].found
        /\ thread[t].sizeBefore = c.capacity
        /\ c.size = c.capacity
        /\ Paired(c)
        /\ IndexKeys(c) # ConcKeys

\* -------------------------------------------------------------- C23 ----
\* C23: a Put is made with size <= capacity, adds at most one key and takes
\* at most one key out, and returns with size <= capacity: the insertion
\* raises size by one, to capacity + 1 at most, and the one conditional
\* removeTail brings it back to capacity at most.
OneEvictionSuffices ==
    [][PutStep =>
        LET key == Last'.key
            value == Last'.value
        IN  /\ c.size <= c.capacity
            /\ c'.size <= c'.capacity
            /\ c'.size >= c.size
            /\ c'.size <= c.size + 1
            /\ Cardinality(IndexKeys(c') \ IndexKeys(c)) <= 1
            /\ Cardinality(IndexKeys(c) \ IndexKeys(c')) <= 1
            /\ Len(List(c')) <= c'.capacity
            /\ key \notin IndexKeys(c)
                 => /\ Insert(c, key, value).size = c.size + 1
                    /\ Insert(c, key, value).size <= c.capacity + 1
                    /\ Evict(Insert(c, key, value)).size <= c.capacity
                    /\ Evict(Insert(c, key, value)).size = c'.size]_vars

\* A full cache of capacity 3 is full again after the Put of a new key with
\* the value 4, which evicted one entry.
OneEvictionWitness ==
    /\ Called
    /\ IsPut(Last, Last.key, 4)
    /\ ~Last.found
    /\ Last.sizeBefore = 3
    /\ Last.size = 3
    /\ c.capacity = 3
    /\ c.size = 3

\* -------------------------------------------------------------- C24 ----
\* C24: a Get, of any key in any state, leaves the keys of the index and of
\* the list, the value stored under every key, the size and the number of
\* cells of the list as they were; only the order of the list may differ.
GetFrame ==
    [][GetStep =>
        /\ c'.size = c.size
        /\ IndexKeys(c') = IndexKeys(c)
        /\ ListKeys(c') = ListKeys(c)
        /\ Len(List(c')) = Len(List(c))
        /\ \A k \in IndexKeys(c) : ValueOf(c', k) = ValueOf(c, k)
        /\ c'.capacity = c.capacity
        /\ Last'.size = Last'.sizeBefore]_vars

\* A Get found the value 4 on a cache holding two entries of three, and its
\* key is now at the head, ahead of the other.
GetFrameWitness ==
    /\ Called
    /\ Last.op = "Get"
    /\ Last.found
    /\ Last.ret = 4
    /\ Last.sizeBefore = 2
    /\ c.capacity = 3
    /\ c.size = 2
    /\ HeadKey(c) = Last.key
    /\ TailKey(c) # Last.key

\* -------------------------------------------------------------- C25 ----
\* C25: NewLRUCache sets the capacity field to its argument, and no Get and
\* no Put changes it afterwards.
CapacityImmutable ==
    [][/\ \A capacity \in Capacities :
            (NewLRUCache(capacity) /\ status' = "live") => c'.capacity = capacity
       /\ Live => (Live' /\ c'.capacity = c.capacity)
       /\ (GetStep \/ PutStep) => c'.capacity = c.capacity]_vars

\* The capacity is still 2 after a Put on the full cache evicted the tail.
CapacityImmutableWitness ==
    /\ Called
    /\ Last.op = "Put"
    /\ ~Last.found
    /\ Last.sizeBefore = 2
    /\ Last.size = 2
    /\ c.capacity = 2
    /\ TailKey(c) # Last.key

\* -------------------------------------------------------------- C26 ----
\* C26: with two instances, every step of a call on one instance leaves the
\* fields of the other (capacity, size, index, list) and its mutex as they
\* were; and a caller waiting for the mutex of its receiver can take it as
\* soon as that mutex is free, whoever holds the mutex of the other instance.
InstanceIndependence ==
    [][/\ \A t \in PairCallers :
            thread'[t] # thread[t] =>
                IF t \in peer.callers \cup peer'.callers
                THEN c' = c /\ mutex' = mutex
                ELSE peer' = peer
       /\ \A t \in PairCallers :
            (thread[t].pc = "lock" /\ MutexAt(Receiver(t)) = 0)
                => ENABLED PairLock(t)]_vars

\* Both mutexes are held at once: one caller is between the insertion and
\* the capacity test of a Put on the first instance, another is about to
\* return from a call that left one entry in the second.
InstanceIndependenceWitness ==
    \E t, u \in PairCallers :
        /\ t # u
        /\ mutex = t
        /\ peer.mutex = u
        /\ Receiver(t) = 1
        /\ Receiver(u) = 2
        /\ thread[t].pc = "evict"
        /\ c.size > c.capacity
        /\ thread[u].pc = "unlock"
        /\ peer.cache.size = 1

\* -------------------------------------------------------------- C27 ----
\* C27: on a cache of capacity 3 the calls Put(a,1), Put(b,2), Put(c,3),
\* Get(b), Put(d,4), Get(a), Get(c), Put(e,5) leave the order b,c,a after
\* Get(b), which returns 2; d,b,c after Put(d), a being evicted; Get(a) then
\* finds nothing; the order is c,d,b after Get(c), which returns 3; and
\* e,c,d after Put(e), b being evicted.
DriverTrace ==
    /\ \A i \in 1..Len(trace) :
         /\ trace[i].op = MainScript[i].op
         /\ trace[i].key = MainScript[i].key
         /\ trace[i].value = MainScript[i].value
    /\ MainAfter(3) => Order(c) = <<"c", "b", "a">>
    /\ MainAfter(4) => /\ Order(c) = <<"b", "c", "a">>
                       /\ trace[4].found
                       /\ trace[4].ret = 2
    /\ MainAfter(5) => /\ Order(c) = <<"d", "b", "c">>
                       /\ "a" \notin IndexKeys(c)
    /\ MainAfter(6) => /\ ~trace[6].found
                       /\ Order(c) = <<"d", "b", "c">>
    /\ MainAfter(7) => /\ Order(c) = <<"c", "d", "b">>
                       /\ trace[7].found
                       /\ trace[7].ret = 3
    /\ MainAfter(8) => /\ Order(c) = <<"e", "c", "d">>
                       /\ "b" \notin IndexKeys(c)
                       /\ Entries(c) = <<<<"e", 5>>, <<"c", 3>>, <<"d", 4>>>>

\* main has made its eight calls on its cache of capacity 3.
DriverTraceWitness ==
    /\ MainAfter(8)
    /\ trace[8].op = "Put"
    /\ trace[8].key = "e"
    /\ trace[8].sizeBefore = 3
    /\ HeadKey(c) = "e"

\* -------------------------------------------------------------- C28 ----
\* C28: the abstract cache is a sequence of (key, value) pairs without a
\* repeated key, of length <= capacity. RefGet of a key it holds moves the
\* pair to the front and returns its value; RefPut of a key it holds puts
\* the pair with the new value at the front; RefPut of another key puts the
\* new pair at the front and drops the last pair if the length exceeds the
\* capacity. Both caches start empty, and every Get and Put takes the list
\* of (key, value) from head to tail to what the abstract call makes of it,
\* every Get returning the abstract result: so after every sequence of calls
\* the two agree.
RefIndex(q, key) ==
    IF \E i \in 1..Len(q) : q[i][1] = key
    THEN CHOOSE i \in 1..Len(q) : q[i][1] = key
    ELSE 0

RefWithout(q, i) == SubSeq(q, 1, i - 1) \o SubSeq(q, i + 1, Len(q))

RefGet(q, key) ==
    LET i == RefIndex(q, key)
    IN  IF i # 0
        THEN [seq |-> <<q[i]>> \o RefWithout(q, i), value |-> q[i][2], found |-> TRUE]
        ELSE [seq |-> q, value |-> zeroValue, found |-> FALSE]

RefPut(q, key, value, capacity) ==
    LET i == RefIndex(q, key)
        q1 == <<<<key, value>>>> \o q
    IN  IF i # 0
        THEN <<<<key, value>>>> \o RefWithout(q, i)
        ELSE IF Len(q1) > capacity THEN Front(q1) ELSE q1

RefOK(q, capacity) ==
    /\ Len(q) <= capacity
    /\ \A i, j \in 1..Len(q) : q[i][1] = q[j][1] => i = j

ReferenceEquivalence ==
    [][/\ (status = "none" /\ status' = "live") => Entries(c') = << >>
       /\ Live' => RefOK(Entries(c'), c'.capacity)
       /\ GetStep =>
            /\ Entries(c') = RefGet(Entries(c), Last'.key).seq
            /\ Last'.ret = RefGet(Entries(c), Last'.key).value
            /\ Last'.found = RefGet(Entries(c), Last'.key).found
       /\ PutStep =>
            Entries(c') = RefPut(Entries(c), Last'.key, Last'.value, c.capacity)]_vars

\* A Get on a full cache of three entries found its key and returned the
\* value of the pair now at the front.
ReferenceEquivalenceWitness ==
    /\ Called
    /\ Last.op = "Get"
    /\ Last.found
    /\ Last.sizeBefore = 3
    /\ Len(Entries(c)) = 3
    /\ Entries(c)[1] = <<Last.key, Last.ret>>
    /\ RefOK(Entries(c), c.capacity)

\* -------------------------------------------------------------- C29 ----
\* C29: for every entry of the list, whether it is the only one, the head,
\* the tail or between two others, remove(entry) leaves the other cells in
\* their order, linked both ways, with head the first of them and tail the
\* last (both nil when there is none), nil before the head and after the
\* tail, and entry.prev = entry.next = nil.
Linked(s, L) ==
    /\ s.head = (IF L = << >> THEN nil ELSE L[1])
    /\ s.tail = (IF L = << >> THEN nil ELSE L[Len(L)])
    /\ List(s) = L
    /\ \A i \in 1..Len(L) :
         /\ s.prev[L[i]] = (IF i = 1 THEN nil ELSE L[i - 1])
         /\ s.next[L[i]] = (IF i = Len(L) THEN nil ELSE L[i + 1])

Others(L, entry) == SelectSeq(L, LAMBDA n : n # entry)

UnlinkAllPositions ==
    Live => \A entry \in ListNodes(c) :
                /\ Len(Others(List(c), entry)) = Len(List(c)) - 1
                /\ Linked(remove(c, entry), Others(List(c), entry))
                /\ remove(c, entry).prev[entry] = nil
                /\ remove(c, entry).next[entry] = nil
                /\ remove(c, entry).key = c.key
                /\ remove(c, entry).value = c.value

\* Get(b) after the Puts of a, b and c has taken b from between c and a,
\* leaving a list with a head, an interior cell and a tail.
UnlinkWitness ==
    /\ Len(trace) = 4
    /\ trace[1].op = "Put" /\ trace[1].key = "a"
    /\ trace[2].op = "Put" /\ trace[2].key = "b"
    /\ trace[3].op = "Put" /\ trace[3].key = "c"
    /\ trace[4].op = "Get" /\ trace[4].key = "b"
    /\ Order(c) = <<"b", "c", "a">>
    /\ Linked(c, List(c))

\* -------------------------------------------------------------- C30 ----
\* C30: addFront of an entry that is not in the list makes it the head, with
\* prev nil and next the old head; the old head's prev is the entry; tail
\* is unchanged when the list was not empty and is the entry when it was;
\* the cells behind the entry are the old list.
AddFrontContract ==
    (Live /\ CanAllocate(c)) =>
        LET entry == NewEntry(c)
            r == addFront(c, entry)
        IN  /\ entry \notin ListNodes(c)
            /\ r.head = entry
            /\ r.prev[entry] = nil
            /\ r.next[entry] = c.head
            /\ c.head # nil => (r.prev[c.head] = entry /\ r.tail = c.tail)
            /\ c.head = nil => r.tail = entry
            /\ List(r) = <<entry>> \o List(c)
            /\ Linked(r, <<entry>> \o List(c))

\* A Put linked a new entry in front of the only entry of the list.
AddFrontWitness ==
    /\ Called
    /\ Last.op = "Put"
    /\ ~Last.found
    /\ Last.sizeBefore = 1
    /\ Last.size = 2
    /\ HeadKey(c) = Last.key
    /\ c.next[c.head] = c.tail
    /\ c.prev[c.tail] = c.head

\* -------------------------------------------------------------- C31 ----
\* C31: whenever a Put on a cache of capacity >= 1 is at its capacity test
\* with size > capacity, so that removeTail is called, tail is not nil and
\* the list is not empty: removeTail takes an entry out and is no no-op.
RemoveTailNonEmpty ==
    \A t \in Threads :
        (thread[t].pc = "evict" /\ c.capacity >= 1 /\ c.size > c.capacity)
            => /\ c.tail # nil
               /\ List(c) # << >>
               /\ removeTail(c).size = c.size - 1
               /\ Evict(c) # c

\* A Put on the full cache of capacity 1 is about to call removeTail: the
\* list holds the new entry and, at the tail, the old one.
RemoveTailNonEmptyWitness ==
    \E t \in Threads :
        /\ thread[t].pc = "evict"
        /\ c.capacity = 1
        /\ c.size = 2
        /\ c.tail # nil
        /\ TailKey(c) # thread[t].key
        /\ HeadKey(c) = thread[t].key

\* -------------------------------------------------------------- C32 ----
\* C32: when a Put of a new key is made on a cache at capacity, the entry at
\* the tail is removed first, before the new entry is added: once the new
\* entry is in, at the capacity test, the cache holds no more than capacity
\* entries and the entry that was at the tail is gone.
EvictsBeforeInsert ==
    \A t \in Threads :
        (/\ thread[t].pc = "evict"
         /\ thread[t].sizeBefore = c.capacity
         /\ thread[t].key \in IndexKeys(c))
            => /\ c.size <= c.capacity
               /\ Len(List(c)) <= c.capacity

\* -------------------------------------------------------------- C33 ----
\* C33: on every capacity >= 1, capacity 1 included, when Put(k, v) returns
\* k is in the index and at the head of the list with the value v, and a
\* Get(k) made next returns (v, true): the entry a Put inserts is not the
\* one it evicts.
InsertedSurvives ==
    [][PutStep =>
        LET key == Last'.key
            value == Last'.value
        IN  /\ c.capacity >= 1
            /\ key \in IndexKeys(c')
            /\ HeadKey(c') = key
            /\ c'.value[c'.head] = value
            /\ Get(c', key).found
            /\ Get(c', key).value = value
            /\ IndexKeys(c) \ IndexKeys(c') # {key}]_vars

\* On a cache of capacity 1 a Put replaced the only entry by its own.
InsertedSurvivesWitness ==
    /\ Called
    /\ Last.op = "Put"
    /\ ~Last.found
    /\ c.capacity = 1
    /\ Last.sizeBefore = 1
    /\ Order(c) = <<Last.key>>
    /\ Get(c, Last.key).value = Last.value

\* -------------------------------------------------------------- C34 ----
\* C34: a Get that finds its key and a Put of a present key take the key to
\* the head and leave the other keys in their head-to-tail order; a Put of
\* an absent key puts it at the head in front of the old keys in their
\* order, less the one at the tail if the cache was full; a Get that finds
\* nothing leaves the order as it was.
OrderPreserved ==
    [][LET key == Last'.key
       IN  /\ ((GetStep /\ Last'.found) \/ (PutStep /\ key \in IndexKeys(c)))
                => /\ Order(c')[1] = key
                   /\ Others(Order(c'), key) = Others(Order(c), key)
           /\ (PutStep /\ key \notin IndexKeys(c))
                => /\ Order(c')[1] = key
                   /\ Others(Order(c'), key) =
                        (IF c.size = c.capacity THEN Front(Order(c)) ELSE Order(c))
           /\ (GetStep /\ ~Last'.found) => Order(c') = Order(c)]_vars

\* A Get took its key, stored with the value 1, to the head of a full list
\* of three keys, the two others behind it.
OrderPreservedWitness ==
    /\ Called
    /\ Last.op = "Get"
    /\ Last.found
    /\ Last.ret = 1
    /\ c.capacity = 3
    /\ Len(Order(c)) = 3
    /\ Order(c)[1] = Last.key
    /\ Len(Others(Order(c), Last.key)) = 2

\* -------------------------------------------------------------- C35 ----
\* C35: Put(k, v) leaves the value stored under every other key that is
\* present before and after it as it was, and Get leaves every stored value
\* as it was.
ValuesFramed ==
    [][/\ PutStep =>
            \A k \in (IndexKeys(c) \cap IndexKeys(c')) \ {Last'.key} :
                ValueOf(c', k) = ValueOf(c, k)
       /\ GetStep =>
            \A k \in IndexKeys(c) \cap IndexKeys(c') :
                ValueOf(c', k) = ValueOf(c, k)]_vars

\* A Put gave a present key the value 4 while another key keeps the value 1.
ValuesFramedWitness ==
    /\ Called
    /\ Last.op = "Put"
    /\ Last.found
    /\ Last.value = 4
    /\ Last.key \in IndexKeys(c)
    /\ ValueOf(c, Last.key) = 4
    /\ \E k \in IndexKeys(c) \ {Last.key} : ValueOf(c, k) = 1

\* -------------------------------------------------------------- C36 ----
\* C36: Get returns found = true exactly when its key is in the index,
\* whatever the value: for a key stored with the zero value it returns
\* (zero, true), for an absent key (zero, false).
FoundIffPresent ==
    [][GetStep =>
        LET key == Last'.key
        IN  /\ Last'.found <=> key \in IndexKeys(c)
            /\ key \notin IndexKeys(c) => (Last'.ret = zeroValue /\ ~Last'.found)
            /\ (key \in IndexKeys(c) /\ ValueOf(c, key) = zeroValue)
                 => (Last'.ret = zeroValue /\ Last'.found)]_vars

\* A Get found a key that is stored with the zero value.
FoundIffPresentWitness ==
    /\ Called
    /\ Last.op = "Get"
    /\ Last.found
    /\ Last.ret = zeroValue
    /\ Last.key \in IndexKeys(c)
    /\ ValueOf(c, Last.key) = zeroValue

\* -------------------------------------------------------------- C37 ----
\* C37: across every Get and every Put the size after the call is at least
\* the size before it, so that a cache whose size is its capacity has that
\* size after every later call.
SizeMonotone ==
    [][(GetStep \/ PutStep) =>
        /\ c'.size >= c.size
        /\ Last'.size >= Last'.sizeBefore
        /\ c.size = c.capacity => c'.size = c'.capacity]_vars

\* A Get that found nothing was made on a full cache of capacity 3, which
\* is still full.
SizeMonotoneWitness ==
    /\ Called
    /\ Last.op = "Get"
    /\ ~Last.found
    /\ Last.sizeBefore = 3
    /\ Last.size = 3
    /\ c.capacity = 3
    /\ c.size = c.capacity

\* -------------------------------------------------------------- C39 ----
\* C39: between calls, for every key k of cacheMap, cacheMap[k] is a cell
\* met on the walk from head through next, and the key field of that cell
\* is k.
IndexPointsAtNode ==
    Live => \A k \in IndexKeys(c) :
                /\ c.cacheMap[k] # nil
                /\ c.cacheMap[k] \in ListNodes(c)
                /\ c.key[c.cacheMap[k]] = k

\* After a Put evicted on a full cache of capacity 3, the index points at
\* the head under the new key and at the tail under the tail's key.
IndexPointsAtNodeWitness ==
    /\ Called
    /\ Last.op = "Put"
    /\ ~Last.found
    /\ Last.sizeBefore = 3
    /\ c.capacity = 3
    /\ Last.key \in IndexKeys(c)
    /\ c.cacheMap[Last.key] = c.head
    /\ c.cacheMap[TailKey(c)] = c.tail

\* -------------------------------------------------------------- C38 ----
\* C38: under a fair scheduler and a fair mutex every call that is invoked
\* returns; in no reachable state are all steps disabled; and a caller in a
\* call can take its next step unless it is in Lock and the mutex is held.
Progress ==
    /\ [](ENABLED NextFair)
    /\ [](\A t \in Threads :
            /\ Inside(t) => ENABLED Run(t)
            /\ (thread[t].pc = "lock" /\ mutex = 0) => ENABLED Lock(t))
    /\ \A t \in Threads : (thread[t].pc # "idle") ~> (thread[t].pc = "idle")

\* A caller waits in Lock while another, between the insertion and the
\* capacity test of its Put on the full cache, holds the mutex.
ProgressWitness ==
    \E t, u \in Threads :
        /\ t # u
        /\ thread[t].pc = "lock"
        /\ mutex = u
        /\ thread[u].pc = "evict"
        /\ c.size > c.capacity
        /\ trace = << >>
====
